---- MODULE Spec2Model ----
(***************************************************************************)
(* Model of the CatchMeow dashboard script (src/script.js): the upload     *)
(* cycle of AudioAnalysisManager, the leaderboard, the metric normalizer   *)
(* and classifier, and the demo-mode result synthesizer.                   *)
(*                                                                         *)
(* JavaScript numbers are modelled as exact rationals [n, d] (d > 0, in    *)
(* lowest terms); strings that the code inspects (scores and ranks in the  *)
(* DOM, box titles, file names) are sequences of one-character strings.    *)
(***************************************************************************)
EXTENDS Integers, Sequences, FiniteSets, TLC

VARIABLES
    leaderboardData,   \* the global array leaderboardData: Seq of [name, score]
    leaderboardList,   \* children of .leaderboard-list: Seq of [rank, name, score] (texts)
    finalScore,        \* #finalScore: [text, className]
    featureBoxes,      \* the .feature-box elements, in document order (titles: BoxTitles)
    progressDisplay,   \* #analysisProgress: "absent", "flex" or "none"
    modals,            \* number of .results-modal elements appended so far
    currentAnalysis,   \* this.currentAnalysis: <<>> for null, else <<results>>
    alerts,            \* the messages alert() has shown so far
    cycles,            \* the handleFileUpload calls in flight, oldest first
    now,               \* Date.now(): advances by one with every change event
    lastMutation,      \* history: the last leaderboard operation and the list before it
    lastReturn,        \* history: how the handleFileUpload call that has just returned ended
    probe              \* a direct call of one of the script's pure functions, and its result

vars == <<leaderboardData, leaderboardList, finalScore, featureBoxes, progressDisplay,
          modals, currentAnalysis, alerts, cycles, now, lastMutation, lastReturn,
          probe>>

----------------------------------------------------------------------------
(* Bounds of the model *)

\* leaderboardData never grows beyond this many entries
MaxPlayers == 5
\* number of change events of the file input
MaxUploads == 2
\* Math.random() returns k / RandDenom for some k in 0 .. RandDenom - 1
RandDenom == 10000
\* raw metric values and percentages are drawn in steps of 1 / Scale
Scale == 2
\* ... from -NegRange up to MaxRaw
NegRange == 5
MaxRaw == 260
\* the largest batch handed to simulateAudioAnalysis
MaxFiles == 6

----------------------------------------------------------------------------
(* Numbers *)

RECURSIVE GCD(_, _)
GCD(a, b) == IF b = 0 THEN a ELSE GCD(b, a % b)

Abs(x) == IF x < 0 THEN -x ELSE x

\* the rational n / d in lowest terms, d > 0
Rat(n, d) ==
    LET g == GCD(Abs(n), Abs(d))
        s == IF d < 0 THEN -1 ELSE 1
    IN  [n |-> (s * n) \div g, d |-> (s * d) \div g]

Num(k) == [n |-> k, d |-> 1]

Add(a, b) == Rat(a.n * b.d + b.n * a.d, a.d * b.d)
Sub(a, b) == Rat(a.n * b.d - b.n * a.d, a.d * b.d)
Mul(a, b) == Rat(a.n * b.n, a.d * b.d)
Div(a, b) == Rat(a.n * b.d, a.d * b.n)
Lt(a, b) == a.n * b.d < b.n * a.d
Le(a, b) == a.n * b.d <= b.n * a.d

\* Math.min, Math.max, Math.floor, Math.round (halves round up)
MathMin(a, b) == IF Le(a, b) THEN a ELSE b
MathMax(a, b) == IF Le(a, b) THEN b ELSE a
MathFloor(a) == a.n \div a.d
MathRound(a) == (2 * a.n + a.d) \div (2 * a.d)

\* the values Math.random() takes in the model: both ends of [0, 1) and the middle
RandomValues == {Rat(0, RandDenom), Rat(RandDenom \div 2, RandDenom),
                 Rat(RandDenom - 1, RandDenom)}

----------------------------------------------------------------------------
(* Strings *)

Digits == <<"0", "1", "2", "3", "4", "5", "6", "7", "8", "9">>
DigitSet == {Digits[i] : i \in 1..10}
DigitVal(c) == (CHOOSE i \in 1..10 : Digits[i] = c) - 1

UpperCase == <<"A", "B", "C", "D", "E", "F", "G", "H", "I", "J", "K", "L", "M",
               "N", "O", "P", "Q", "R", "S", "T", "U", "V", "W", "X", "Y", "Z">>
LowerCase == <<"a", "b", "c", "d", "e", "f", "g", "h", "i", "j", "k", "l", "m",
               "n", "o", "p", "q", "r", "s", "t", "u", "v", "w", "x", "y", "z">>

\* String(n) for an integer n
RECURSIVE NatStr(_)
NatStr(n) == IF n < 10 THEN <<Digits[n + 1]>>
             ELSE NatStr(n \div 10) \o <<Digits[(n % 10) + 1]>>

IntStr(n) == IF n < 0 THEN <<"-">> \o NatStr(-n) ELSE NatStr(n)

\* parseInt(s): an optional sign, then the longest run of digits; NaN without a digit
RECURSIVE ParseDigits(_, _, _)
ParseDigits(s, i, acc) ==
    IF i > Len(s) \/ s[i] \notin DigitSet THEN acc
    ELSE ParseDigits(s, i + 1, acc * 10 + DigitVal(s[i]))

parseInt(s) ==
    LET signed == Len(s) > 0 /\ s[1] \in {"-", "+"}
        start == IF signed THEN 2 ELSE 1
        sign == IF signed /\ s[1] = "-" THEN -1 ELSE 1
    IN  IF start > Len(s) \/ s[start] \notin DigitSet
        THEN [nan |-> TRUE, val |-> 0]
        ELSE [nan |-> FALSE, val |-> sign * ParseDigits(s, start, 0)]

\* s.toLowerCase()
ToLowerCase(s) ==
    [i \in 1..Len(s) |->
        IF \E k \in 1..26 : UpperCase[k] = s[i]
        THEN LowerCase[CHOOSE k \in 1..26 : UpperCase[k] = s[i]]
        ELSE s[i]]

\* s.replace(from, to) for one-character strings: the first occurrence only
ReplaceFirst(s, from, to) ==
    IF \E i \in 1..Len(s) : s[i] = from
    THEN LET k == CHOOSE i \in 1..Len(s) : s[i] = from /\ \A j \in 1..(i - 1) : s[j] # from
         IN  [i \in 1..Len(s) |-> IF i = k THEN to ELSE s[i]]
    ELSE s

\* s.endsWith(suffix)
EndsWith(s, suffix) ==
    /\ Len(suffix) <= Len(s)
    /\ SubSeq(s, Len(s) - Len(suffix) + 1, Len(s)) = suffix

----------------------------------------------------------------------------
(* Leaderboard (script.js 296-338, 580-629) *)

\* the initial value of the global leaderboardData
InitialLeaderboardData ==
    << [name |-> "Alice", score |-> 92], [name |-> "Bob", score |-> 87],
       [name |-> "Charlie", score |-> 81], [name |-> "Diana", score |-> 76] >>

\* the names addNewPlayer draws from
names == <<"Emma", "James", "Sophie", "Michael", "Lisa", "David", "Sarah", "John">>

\* leaderboardData.sort((a, b) => b.score - a.score)
CompareScore(a, b) == b.score - a.score

\* the comparator of sortLeaderboard: scoreB - scoreA on the parsed score texts
\* (NaN when either text has no digits, which sort treats as 0)
CompareItems(a, b) ==
    LET scoreA == parseInt(a.score)
        scoreB == parseInt(b.score)
    IN  IF scoreA.nan \/ scoreB.nan THEN 0 ELSE scoreB.val - scoreA.val

\* Array.prototype.sort with a consistent comparator: a stable sort.  compareFn
\* names the comparator handed to sort; a value > 0 places a after b.
Compare(compareFn, a, b) ==
    IF compareFn = "CompareScore" THEN CompareScore(a, b) ELSE CompareItems(a, b)

InsertOrdered(sorted, x, compareFn) ==
    LET after == {j \in 1..Len(sorted) : Compare(compareFn, sorted[j], x) > 0}
        k == IF after = {} THEN Len(sorted) + 1
             ELSE CHOOSE j \in after : \A i \in after : j <= i
    IN  SubSeq(sorted, 1, k - 1) \o <<x>> \o SubSeq(sorted, k, Len(sorted))

ArraySort(s, compareFn) ==
    LET f[i \in 0..Len(s)] ==
            IF i = 0 THEN <<>> ELSE InsertOrdered(f[i - 1], s[i], compareFn)
    IN  f[Len(s)]

\* one .player-item
PlayerItem(rank, name, scoreText) ==
    [rank |-> IntStr(rank) \o <<".">>, name |-> name, score |-> scoreText]

\* renderLeaderboard(): sorts the array in place and rebuilds the list from it;
\* the result is the pair of the array and the list
renderLeaderboard(data) ==
    LET sorted == ArraySort(data, "CompareScore")
    IN  [data |-> sorted,
         list |-> [i \in 1..Len(sorted) |->
                     PlayerItem(i, sorted[i].name, IntStr(sorted[i].score))]]

\* sortLeaderboard(): sorts the items and rewrites every rank
sortLeaderboard_KeepRanks(list) == ArraySort(list, "CompareItems")

sortLeaderboard(list) ==
    LET players == ArraySort(list, "CompareItems")
    IN  [i \in 1..Len(players) |->
            [players[i] EXCEPT !.rank = IntStr(i) \o <<".">>]]

\* addPlayerToLeaderboard(playerName, score): appends an item showing
\* Math.round(score), then sorts the list
addPlayerToLeaderboard(list, playerName, score) ==
    LET rank == Len(list) + 1
        playerItem == PlayerItem(rank, playerName, IntStr(MathRound(score)))
    IN  sortLeaderboard(Append(list, playerItem))

----------------------------------------------------------------------------
(* Metric classifier (script.js 427-472) *)

MetricTypes == {"pause-ratio", "pause-count", "mean-f0", "mean-energy", "max-energy"}

\* case 'pause-ratio': on the percentage
pauseRatioColor(percentage) ==
    IF Le(percentage, Num(10)) THEN "pause-ratio-excellent"
    ELSE IF Le(percentage, Num(20)) THEN "pause-ratio-good"
    ELSE IF Le(percentage, Num(30)) THEN "pause-ratio-fair"
    ELSE IF Le(percentage, Num(40)) THEN "pause-ratio-poor"
    ELSE "pause-ratio-bad"

\* case 'pause-count'
pauseCountColor(value) ==
    IF Le(value, Num(5)) THEN "pause-count-excellent"
    ELSE IF Le(value, Num(15)) THEN "pause-count-good"
    ELSE IF Le(value, Num(25)) THEN "pause-count-fair"
    ELSE IF Le(value, Num(35)) THEN "pause-count-poor"
    ELSE "pause-count-bad"

\* case 'mean-f0'
meanF0Color_InclusiveLow(value) ==
    IF Le(value, Num(80)) THEN "mean-f0-low"
    ELSE IF Le(value, Num(120)) THEN "mean-f0-normal-low"
    ELSE IF Le(value, Num(180)) THEN "mean-f0-normal-mid"
    ELSE IF Le(value, Num(250)) THEN "mean-f0-normal-high"
    ELSE "mean-f0-high"

meanF0Color(value) ==
    IF Lt(value, Num(80)) THEN "mean-f0-low"
    ELSE IF Le(value, Num(120)) THEN "mean-f0-normal-low"
    ELSE IF Le(value, Num(180)) THEN "mean-f0-normal-mid"
    ELSE IF Le(value, Num(250)) THEN "mean-f0-normal-high"
    ELSE "mean-f0-high"

\* case 'mean-energy'
meanEnergyColor(value) ==
    IF Lt(value, Num(10)) THEN "mean-energy-very-low"
    ELSE IF Lt(value, Num(30)) THEN "mean-energy-low"
    ELSE IF Le(value, Num(70)) THEN "mean-energy-optimal"
    ELSE IF Le(value, Num(85)) THEN "mean-energy-high"
    ELSE "mean-energy-very-high"

\* case 'max-energy'
maxEnergyColor(value) ==
    IF Lt(value, Num(15)) THEN "max-energy-very-low"
    ELSE IF Lt(value, Num(35)) THEN "max-energy-low"
    ELSE IF Le(value, Num(75)) THEN "max-energy-normal"
    ELSE IF Le(value, Num(90)) THEN "max-energy-high"
    ELSE "max-energy-very-high"

\* getMetricColor(metricType, value, percentage)
getMetricColor_FallThrough(metricType, value, percentage) ==
    CASE metricType = "pause-ratio" -> pauseRatioColor(percentage)
      [] metricType = "pause-count" -> pauseCountColor(value)
      [] metricType = "mean-f0" -> meanF0Color(value)
      [] metricType = "mean-energy" -> meanEnergyColor(value)
      [] OTHER -> maxEnergyColor(value)

getMetricColor(metricType, value, percentage) ==
    CASE metricType = "pause-ratio" -> pauseRatioColor(percentage)
      [] metricType = "pause-count" -> pauseCountColor(value)
      [] metricType = "mean-f0" -> meanF0Color(value)
      [] metricType = "mean-energy" -> meanEnergyColor(value)
      [] metricType = "max-energy" -> maxEnergyColor(value)
      [] OTHER -> "pause-ratio-good"

----------------------------------------------------------------------------
(* Metric normalizer: the two places that compute a bar's percentage *)

\* updateMetrics (script.js 550-577): the percentage handed to updateProgressBar
\* for the field `key` of metricsData with value `raw`
updateMetricsPercentage(key, raw) ==
    CASE key = "pauseRatio" -> MathMin(Mul(raw, Num(100)), Num(100))
      [] key = "pauseCount" -> MathMin(Mul(Div(raw, Num(50)), Num(100)), Num(100))
      [] key = "meanF0" ->
            MathMin(MathMax(Mul(Div(Sub(raw, Num(50)), Num(250)), Num(100)), Num(0)), Num(100))
      [] key = "meanEnergy" -> MathMin(raw, Num(100))
      [] key = "maxEnergy" -> MathMin(raw, Num(100))

\* updateMetricBox (script.js 249-266): the switch on metricType
updateMetricBoxPercentage(metricType, value) ==
    CASE metricType = "pause_ratio" -> MathMin(Num(100), Mul(value, Num(10)))
      [] metricType = "pause_count" -> MathMin(Num(100), Mul(Div(value, Num(30)), Num(100)))
      [] metricType = "mean_f0" ->
            MathMin(Num(100), MathMax(Num(0), Mul(Div(Sub(value, Num(50)), Num(300)), Num(100))))
      [] metricType \in {"mean_energy", "max_energy"} ->
            MathMin(Num(100), MathMax(Num(0), value))
      [] OTHER -> MathMin(Num(100), MathMax(Num(0), value))

----------------------------------------------------------------------------
(* Demo-mode synthesizer (script.js 92-179).  Every Math.random() call of   *)
(* a generator is an input: rnd.score, rnd.confidence, rnd.count and one    *)
(* per metric.  The comparator of reasons.sort is random and so not         *)
(* consistent; the engine then leaves the array in some order of its        *)
(* elements, rnd.order.                                                     *)

FullSessionReasons ==
    << "Pause patterns differ from conversational baseline",
       "Pitch variation exceeds reading baseline",
       "Energy levels show stress indicators",
       "Speech rhythm changes detected" >>

SingleFileReasons ==
    << "High pause ratio detected",
       "Frequent pausing detected",
       "Unusual pitch patterns",
       "Energy levels indicate stress",
       "Speech patterns appear normal" >>

\* reasons.sort(() => 0.5 - Math.random())
Shuffle_Repeating(reasons, order) == [i \in 1..Len(reasons) |-> reasons[order[1]]]

Shuffle(reasons, order) == [i \in 1..Len(reasons) |-> reasons[order[i]]]

\* array.slice(0, end)
Slice0(array, end) == SubSeq(array, 1, IF end < Len(array) THEN end ELSE Len(array))

\* the values the model draws for the Math.random() of a metric: both ends of [0, 1)
MetricDraws == {Rat(0, RandDenom), Rat(RandDenom - 1, RandDenom)}

\* the draws of one generator call over a pool of poolSize reasons
Draws(poolSize) ==
    [score : RandomValues, confidence : RandomValues, count : RandomValues,
     order : Permutations(1..poolSize),
     pauseRatio : MetricDraws, pauseCount : MetricDraws, meanF0 : MetricDraws,
     meanEnergy : MetricDraws, maxEnergy : MetricDraws]

\* baseScore of generateFullSessionResults; r is its Math.random()
FullBaseScore_SingleFileRange(r) == Add(Num(10), Mul(r, Num(70)))

FullBaseScore(r) == Add(Num(20), Mul(r, Num(60)))

\* the end of the slice of generateFullSessionResults: 2 or 3
FullReasonCount(r) == 2 + MathFloor(Mul(r, Num(2)))

\* the end of the slice of generateSingleFileResults: 1 or 2
SingleReasonCount_FromZero(r) == MathFloor(Mul(r, Num(2)))

SingleReasonCount(r) == 1 + MathFloor(Mul(r, Num(2)))

\* generateFullSessionResults(files)
generateFullSessionResults(files, rnd) ==
    LET baseScore == FullBaseScore(rnd.score)
        confidence == Add(Rat(7, 10), Mul(rnd.confidence, Rat(25, 100)))
        selectedReasons ==
            Slice0(Shuffle(FullSessionReasons, rnd.order), FullReasonCount(rnd.count))
    IN  [success |-> TRUE,
         bluff_score |-> Div(Num(MathRound(Mul(baseScore, Num(10)))), Num(10)),
         confidence |-> Div(Num(MathRound(Mul(confidence, Num(100)))), Num(100)),
         reasons |-> selectedReasons,
         metrics |->
            [pause_ratio |->
                Div(Num(MathRound(Mul(Add(Rat(5, 100), Mul(rnd.pauseRatio, Rat(3, 10))),
                                      Num(1000)))), Num(10)),
             pause_count |-> Num(MathFloor(Add(Num(3), Mul(rnd.pauseCount, Num(20))))),
             mean_f0 |-> Num(MathRound(Add(Num(120), Mul(rnd.meanF0, Num(80))))),
             mean_energy |-> Num(MathRound(Add(Num(30), Mul(rnd.meanEnergy, Num(50))))),
             max_energy |-> Num(MathRound(Add(Num(50), Mul(rnd.maxEnergy, Num(40)))))],
         analysis_type |-> "full_session_baseline",
         files_analyzed |-> Len(files)]

\* generateSingleFileResults(file)
generateSingleFileResults(file, rnd) ==
    LET baseScore == Add(Num(10), Mul(rnd.score, Num(70)))
        confidence == Add(Rat(6, 10), Mul(rnd.confidence, Rat(2, 10)))
        selectedReasons ==
            Slice0(Shuffle(SingleFileReasons, rnd.order), SingleReasonCount(rnd.count))
    IN  [success |-> TRUE,
         bluff_score |-> Div(Num(MathRound(Mul(baseScore, Num(10)))), Num(10)),
         confidence |-> Div(Num(MathRound(Mul(confidence, Num(100)))), Num(100)),
         reasons |-> selectedReasons,
         metrics |->
            [pause_ratio |->
                Div(Num(MathRound(Mul(Add(Rat(2, 100), Mul(rnd.pauseRatio, Rat(25, 100))),
                                      Num(1000)))), Num(10)),
             pause_count |-> Num(MathFloor(Add(Num(1), Mul(rnd.pauseCount, Num(15))))),
             mean_f0 |-> Num(MathRound(Add(Num(100), Mul(rnd.meanF0, Num(100))))),
             mean_energy |-> Num(MathRound(Add(Num(20), Mul(rnd.meanEnergy, Num(60))))),
             max_energy |-> Num(MathRound(Add(Num(40), Mul(rnd.maxEnergy, Num(50)))))],
         analysis_type |-> "single_file",
         files_analyzed |-> 1]

\* the generator simulateAudioAnalysis(files) calls, and the argument it hands over
GeneratorCall_FirstFile(files) ==
    IF Len(files) = 5
    THEN [generator |-> "generateFullSessionResults", argument |-> files]
    ELSE [generator |-> "generateSingleFileResults", argument |-> files[1]]

GeneratorCall(files) ==
    LET numFiles == Len(files)
    IN  IF numFiles = 5
        THEN [generator |-> "generateFullSessionResults", argument |-> files]
        ELSE IF numFiles = 1
        THEN [generator |-> "generateSingleFileResults", argument |-> files[1]]
        ELSE [generator |-> "generateSingleFileResults", argument |-> files[Len(files)]]

\* simulateAudioAnalysis(files), once its 2000 ms timer has fired
simulateAudioAnalysis(files, rnd) ==
    LET call == GeneratorCall(files)
    IN  IF call.generator = "generateFullSessionResults"
        THEN generateFullSessionResults(call.argument, rnd)
        ELSE generateSingleFileResults(call.argument, rnd)

\* the draws simulateAudioAnalysis(files) consumes
DrawsFor(files) == IF Len(files) = 5 THEN Draws(Len(FullSessionReasons))
                   ELSE Draws(Len(SingleFileReasons))

----------------------------------------------------------------------------
(* Dashboard elements written by AudioAnalysisManager (script.js 181-294)   *)

\* the h3 titles of the five feature boxes, in document order
BoxTitles ==
    << <<"P", "a", "u", "s", "e", " ", "R", "a", "t", "i", "o">>,
       <<"P", "a", "u", "s", "e", " ", "C", "o", "u", "n", "t">>,
       <<"M", "e", "a", "n", " ", "F", "0">>,
       <<"M", "e", "a", "n", " ", "E", "n", "e", "r", "g", "y">>,
       <<"M", "a", "x", " ", "E", "n", "e", "r", "g", "y">> >>

\* the sample metrics initializeProgressBars shows (script.js 480-486)
SampleMetrics ==
    << [type |-> "pause-ratio", value |-> 15, percentage |-> 15],
       [type |-> "pause-count", value |-> 12, percentage |-> 35],
       [type |-> "mean-f0", value |-> 145, percentage |-> 55],
       [type |-> "mean-energy", value |-> 65, percentage |-> 75],
       [type |-> "max-energy", value |-> 82, percentage |-> 85] >>

\* the feature boxes once initializeProgressBars has run and its timers have fired
InitialFeatureBoxes ==
    [i \in 1..Len(BoxTitles) |->
        LET metric == SampleMetrics[i]
        IN  [width |-> Num(metric.percentage),
             dataPercentage |-> <<>>,
             className |-> <<"progress-bar",
                             getMetricColor(metric.type, Num(metric.value),
                                            Num(metric.percentage))>>,
             percentage |-> IntStr(metric.percentage) \o <<"%">>]]

\* metricMapping of updateMetricBoxes: CSS class -> key of results.metrics
MetricMapping ==
    << [cssClass |-> "pause-ratio", metricKey |-> "pause_ratio"],
       [cssClass |-> "pause-count", metricKey |-> "pause_count"],
       [cssClass |-> "mean-f0", metricKey |-> "mean_f0"],
       [cssClass |-> "mean-energy", metricKey |-> "mean_energy"],
       [cssClass |-> "max-energy", metricKey |-> "max_energy"] >>

\* the characters of a CSS class name
Chars(cssClass) ==
    CASE cssClass = "pause-ratio" -> <<"p", "a", "u", "s", "e", "-", "r", "a", "t", "i", "o">>
      [] cssClass = "pause-count" -> <<"p", "a", "u", "s", "e", "-", "c", "o", "u", "n", "t">>
      [] cssClass = "mean-f0" -> <<"m", "e", "a", "n", "-", "f", "0">>
      [] cssClass = "mean-energy" -> <<"m", "e", "a", "n", "-", "e", "n", "e", "r", "g", "y">>
      [] cssClass = "max-energy" -> <<"m", "a", "x", "-", "e", "n", "e", "r", "g", "y">>

\* updateFinalScore(score) of the manager; el is #finalScore
updateFinalScore(el, score) ==
    [text |-> IntStr(MathRound(score)),
     className |-> <<"score-value",
                     IF Lt(score, Num(30)) THEN "score-low"
                     ELSE IF Lt(score, Num(70)) THEN "score-medium"
                     ELSE "score-high">>]

\* the test of updateMetricBox that selects a container by its title
TitleMatches(title, cssClass) ==
    LET titleText == ReplaceFirst(ToLowerCase(title), " ", "-")
    IN  titleText = ToLowerCase(ReplaceFirst(Chars(cssClass), "-", " "))

\* the containers updateMetricBox selects for each CSS class (the titles are fixed)
MatchingBoxes ==
    [cssClass \in MetricTypes |->
        {i \in 1..Len(BoxTitles) : TitleMatches(BoxTitles[i], cssClass)}]

\* updateMetricBox(cssClass, value, metricType): updates the first container
\* whose title matches, if any
updateMetricBox(boxes, cssClass, value, metricType) ==
    LET matching == MatchingBoxes[cssClass]
    IN  IF matching = {} THEN boxes
        ELSE LET k == CHOOSE i \in matching : \A j \in matching : i <= j
                 percentage == updateMetricBoxPercentage(metricType, value)
                 colorClass == getMetricColor(cssClass, value, percentage)
                 text == IF metricType = "mean_f0"
                            THEN IntStr(MathRound(value)) \o <<" ", "H", "z">>
                         ELSE IF metricType = "pause_count"
                            THEN IntStr(MathRound(value)) \o
                                 <<" ", "p", "a", "u", "s", "e", "s">>
                         ELSE IntStr(MathRound(percentage)) \o <<"%">>
             IN  [boxes EXCEPT ![k] =
                    [width |-> percentage,
                     dataPercentage |-> IntStr(MathRound(percentage)),
                     className |-> <<"progress-bar", colorClass>>,
                     percentage |-> text]]

\* updateMetricBoxes(metrics): one updateMetricBox per entry of metricMapping
updateMetricBoxes(boxes, metrics) ==
    LET f[i \in 0..Len(MetricMapping)] ==
            IF i = 0 THEN boxes
            ELSE LET m == MetricMapping[i]
                 IN  updateMetricBox(f[i - 1], m.cssClass, metrics[m.metricKey], m.metricKey)
    IN  f[Len(MetricMapping)]

\* the part of the page updateGUIWithResults writes
Gui ==
    [finalScore |-> finalScore, featureBoxes |-> featureBoxes,
     leaderboardList |-> leaderboardList, modals |-> modals,
     currentAnalysis |-> currentAnalysis]

\* `Player_${Date.now()}`
PlayerName(time) == "Player_" \o ToString(time)

\* updateGUIWithResults(results), called at time `time`
updateGUIWithResults_StoresFailure(gui, results, time) ==
    IF ~results.success THEN [gui EXCEPT !.currentAnalysis = <<results>>]
    ELSE [finalScore |-> updateFinalScore(gui.finalScore, results.bluff_score),
          featureBoxes |-> updateMetricBoxes(gui.featureBoxes, results.metrics),
          leaderboardList |->
              addPlayerToLeaderboard(gui.leaderboardList, PlayerName(time),
                                     results.bluff_score),
          modals |-> gui.modals + 1,
          currentAnalysis |-> <<results>>]

updateGUIWithResults(gui, results, time) ==
    IF ~results.success THEN gui
    ELSE [finalScore |-> updateFinalScore(gui.finalScore, results.bluff_score),
          featureBoxes |-> updateMetricBoxes(gui.featureBoxes, results.metrics),
          leaderboardList |->
              addPlayerToLeaderboard(gui.leaderboardList, PlayerName(time),
                                     results.bluff_score),
          modals |-> gui.modals + 1,
          currentAnalysis |-> <<results>>]

----------------------------------------------------------------------------
(* The upload cycle (script.js 33-90, 340-363) *)

WavFile == <<"a", ".", "w", "a", "v">>
Mp3File == <<"b", ".", "m", "p", "3">>
TextFile == <<"n", ".", "t", "x", "t">>

\* the selections of the file input the model draws from
FileBatches == { <<TextFile>>, <<WavFile, TextFile, Mp3File>> }

\* the filter of handleFileUpload
IsAudioFile(name) ==
    \/ EndsWith(name, <<".", "w", "a", "v">>)
    \/ EndsWith(name, <<".", "m", "p", "3">>)
    \/ EndsWith(name, <<".", "m", "4", "a">>)

\* what GET /health does
HealthOutcomes == {"ok", "nonok", "reject"}
\* what POST /analyze_audio does
FetchOutcomes == {"ok", "nonok", "reject"}

\* isBackendAvailable() is an async function: the call returns a promise, which
\* later resolves to response.ok, or to false when fetch rejects
isBackendAvailable(health) ==
    [type |-> "object", class |-> "Promise", resolvesTo |-> (health = "ok")]

\* ToBoolean of a JavaScript value, as the condition of an if statement takes it
Truthy(v) ==
    CASE v.type = "boolean" -> v.value
      [] v.type = "object" -> TRUE
      [] OTHER -> FALSE

\* the AnalysisResult bodies the backend answers with in the model
BackendMetrics ==
    [pause_ratio |-> Rat(25, 10), pause_count |-> Num(12), mean_f0 |-> Num(145),
     mean_energy |-> Num(65), max_energy |-> Num(82)]

BackendResult(score) ==
    [success |-> TRUE, bluff_score |-> score, confidence |-> Rat(85, 100),
     reasons |-> <<"Pitch variation exceeds reading baseline",
                   "Speech rhythm changes detected">>,
     metrics |-> BackendMetrics, analysis_type |-> "full_session_baseline",
     files_analyzed |-> 5]

\* what response.json() yields: a parse failure, a success:false result, or a result
JsonBodies ==
    { [parsed |-> FALSE, value |-> [success |-> FALSE, error |-> "Unexpected token"]],
      [parsed |-> TRUE, value |-> [success |-> FALSE, error |-> "No speech detected"]],
      [parsed |-> TRUE, value |-> BackendResult(Rat(955, 10))],
      [parsed |-> TRUE, value |-> BackendResult(Rat(454, 10))] }

SelectAlert == "Please select audio files (.wav, .mp3, or .m4a)"
FailedAlert == "Audio analysis failed"

\* hideAnalysisProgress(): hides the indicator if it exists
hideAnalysisProgress(display) == IF display = "absent" THEN display ELSE "none"

\* the in-flight calls without the i-th, which has returned
Returned(i) == SubSeq(cycles, 1, i - 1) \o SubSeq(cycles, i + 1, Len(cycles))

\* the history variable lastReturn is kept only when Init switches it on.  It
\* tells how the call that returned in the last step ended (cause), the page just
\* before that step (prev) and, for a call no other call overlapped, the page
\* when the call began (before)
Returning(i, cause) ==
    IF lastReturn.cause = "off" THEN lastReturn
    ELSE [cause |-> cause, prev |-> <<Gui>>, before |-> cycles[i].before]

NotReturning ==
    IF lastReturn.cause = "off" THEN lastReturn
    ELSE [cause |-> "none", prev |-> <<>>, before |-> <<>>]

\* handleFileUpload up to its first await: the change event selects `selection`,
\* and the GET /health this call issues ends as healthCheck
StartUpload(selection, healthCheck) ==
    /\ now < MaxUploads
    /\ now' = now + 1
    /\ LET files == SelectSeq(selection, IsAudioFile)
           useBackend == Truthy(isBackendAvailable(healthCheck))
       IN  IF Len(files) = 0
           THEN /\ alerts' = alerts \cup {SelectAlert}
                /\ UNCHANGED <<cycles, progressDisplay>>
           ELSE /\ progressDisplay' = "flex"
                /\ cycles' = Append([k \in DOMAIN cycles |->
                                        [cycles[k] EXCEPT !.before = <<>>]],
                       [pc |-> IF useBackend THEN "awaitFetch" ELSE "awaitTimer",
                        files |-> files, health |-> healthCheck,
                        sent |-> useBackend, simulated |-> ~useBackend,
                        before |-> IF lastReturn.cause = "off" \/ cycles # <<>>
                                   THEN <<>> ELSE <<Gui>>])
                /\ UNCHANGED alerts
    /\ lastReturn' = NotReturning
    /\ UNCHANGED <<leaderboardData, leaderboardList, finalScore, featureBoxes, modals,
                   currentAnalysis, lastMutation, probe>>

\* the history variable lastMutation is kept only when Init switches it on
Recorded(entry) == IF lastMutation.op = "off" THEN lastMutation ELSE entry

\* the catch and finally blocks of handleFileUpload, for cycle i
UploadFails(i, cause) ==
    /\ alerts' = alerts \cup {FailedAlert}
    /\ progressDisplay' = hideAnalysisProgress(progressDisplay)
    /\ cycles' = Returned(i)
    /\ lastReturn' = Returning(i, cause)
    /\ UNCHANGED <<leaderboardData, leaderboardList, finalScore, featureBoxes, modals,
                   currentAnalysis, lastMutation>>

\* the try block continues with `results`, then the finally block, for cycle i
UploadCompletes(i, results) ==
    LET gui == updateGUIWithResults(Gui, results, now)
    IN  /\ finalScore' = gui.finalScore
        /\ featureBoxes' = gui.featureBoxes
        /\ leaderboardList' = gui.leaderboardList
        /\ modals' = gui.modals
        /\ currentAnalysis' = gui.currentAnalysis
        /\ lastMutation' = IF gui.leaderboardList = leaderboardList THEN lastMutation
                           ELSE Recorded([op |-> "upload", before |-> <<>>])
        /\ progressDisplay' = hideAnalysisProgress(progressDisplay)
        /\ cycles' = Returned(i)
        /\ lastReturn' = Returning(i, IF results.success THEN "ok" ELSE "success:false")
        /\ UNCHANGED <<leaderboardData, alerts>>

\* sendFilesToBackend: the fetch of POST /analyze_audio settles
FetchSettles(i, outcome) ==
    /\ i \in DOMAIN cycles
    /\ cycles[i].pc = "awaitFetch"
    /\ IF outcome = "ok"
       THEN /\ cycles' = [cycles EXCEPT ![i].pc = "awaitJson"]
            /\ lastReturn' = NotReturning
            /\ UNCHANGED <<leaderboardData, leaderboardList, finalScore, featureBoxes,
                           modals, currentAnalysis, lastMutation, alerts, progressDisplay>>
       ELSE UploadFails(i, outcome)
    /\ UNCHANGED <<now, probe>>

\* the promise handleFileUpload awaits settles: response.json() of
\* sendFilesToBackend, or the timer of simulateAudioAnalysis
AnalysisSettles(i) ==
    /\ i \in DOMAIN cycles
    /\ cycles[i].pc \in {"awaitJson", "awaitTimer"}
    /\ IF cycles[i].pc = "awaitJson"
       THEN \E body \in JsonBodies :
                IF body.parsed THEN UploadCompletes(i, body.value)
                ELSE UploadFails(i, "malformed")
       ELSE \E rnd \in DrawsFor(cycles[i].files) :
                UploadCompletes(i, simulateAudioAnalysis(cycles[i].files, rnd))
    /\ UNCHANGED <<now, probe>>

----------------------------------------------------------------------------
(* The leaderboard buttons (script.js 607-629) *)

\* the values the model draws for the Math.random() that picks the name
NameDraws == {Rat(RandDenom \div 2, RandDenom)}

\* addNewPlayer(); rName and rScore are its two Math.random() values
AddNewPlayer(rName, rScore) ==
    /\ Len(leaderboardData) < MaxPlayers
    /\ LET randomName == names[MathFloor(Mul(rName, Num(Len(names)))) + 1]
           randomScore == MathFloor(Mul(rScore, Num(100)))
           r == renderLeaderboard(
                    Append(leaderboardData, [name |-> randomName, score |-> randomScore]))
       IN  /\ leaderboardData' = r.data
           /\ leaderboardList' = r.list
    /\ lastMutation' =
           Recorded([op |-> "add",
                     before |-> IF leaderboardList = renderLeaderboard(leaderboardData).list
                                THEN <<leaderboardList>> ELSE <<>>])
    /\ lastReturn' = NotReturning
    /\ UNCHANGED <<finalScore, featureBoxes, progressDisplay, modals, currentAnalysis,
                   alerts, cycles, now, probe>>

\* removeLastPlayer()
RemoveLastPlayer ==
    /\ IF Len(leaderboardData) > 0
       THEN LET r == renderLeaderboard(SubSeq(leaderboardData, 1, Len(leaderboardData) - 1))
            IN  /\ leaderboardData' = r.data
                /\ leaderboardList' = r.list
       ELSE UNCHANGED <<leaderboardData, leaderboardList>>
    /\ lastMutation' = Recorded(IF lastMutation.op = "add"
                                THEN [op |-> "add-remove", before |-> lastMutation.before]
                                ELSE [op |-> "remove", before |-> <<>>])
    /\ lastReturn' = NotReturning
    /\ UNCHANGED <<finalScore, featureBoxes, progressDisplay, modals, currentAnalysis,
                   alerts, cycles, now, probe>>

----------------------------------------------------------------------------
(* The dashboard: the page after DOMContentLoaded, and its event handlers *)

NoProbe == [fn |-> "none"]

InitDashboard ==
    /\ leaderboardData = renderLeaderboard(InitialLeaderboardData).data
    /\ leaderboardList = renderLeaderboard(InitialLeaderboardData).list
    /\ finalScore = [text |-> <<"0">>, className |-> <<"score-value">>]
    /\ featureBoxes = InitialFeatureBoxes
    /\ progressDisplay = "absent"
    /\ modals = 0
    /\ currentAnalysis = <<>>
    /\ alerts = {}
    /\ cycles = <<>>
    /\ now = 0

\* the upload cycles alone: every selection and every outcome of GET /health,
\* with the history variable lastReturn switched on
Init ==
    /\ InitDashboard
    /\ lastMutation = [op |-> "off", before |-> <<>>]
    /\ lastReturn = [cause |-> "none", prev |-> <<>>, before |-> <<>>]
    /\ probe = NoProbe

Next ==
    \/ \E selection \in FileBatches, healthCheck \in HealthOutcomes :
            StartUpload(selection, healthCheck)
    \/ \E i \in 1..MaxUploads, outcome \in FetchOutcomes : FetchSettles(i, outcome)
    \/ \E i \in 1..MaxUploads : AnalysisSettles(i)

Spec == Init /\ [][Next]_vars

\* the two leaderboard buttons alone, with the history variable switched on
InitButtons ==
    /\ InitDashboard
    /\ lastMutation = [op |-> "none", before |-> <<>>]
    /\ lastReturn = [cause |-> "off", prev |-> <<>>, before |-> <<>>]
    /\ probe = NoProbe

NextButtons ==
    \/ \E rName \in NameDraws, rScore \in RandomValues : AddNewPlayer(rName, rScore)
    \/ RemoveLastPlayer

SpecButtons == InitButtons /\ [][NextButtons]_vars

\* the leaderboard under all three of its mutations: the two buttons, and uploads
\* of audio files that a healthy backend answers
AudioBatch == <<WavFile, TextFile, Mp3File>>

InitBoard ==
    /\ InitDashboard
    /\ lastMutation = [op |-> "off", before |-> <<>>]
    /\ lastReturn = [cause |-> "off", prev |-> <<>>, before |-> <<>>]
    /\ probe = NoProbe

NextBoard ==
    \/ StartUpload(AudioBatch, "ok")
    \/ \E i \in 1..MaxUploads, outcome \in FetchOutcomes : FetchSettles(i, outcome)
    \/ \E i \in 1..MaxUploads : AnalysisSettles(i)
    \/ \E rName \in NameDraws, rScore \in RandomValues : AddNewPlayer(rName, rScore)
    \/ RemoveLastPlayer

SpecBoard == InitBoard /\ [][NextBoard]_vars

----------------------------------------------------------------------------
(* Direct calls of the pure functions.  probe holds the call, and its       *)
(* result once the call has returned: <<>> before, <<result>> after.        *)

ProbeUnchanged ==
    UNCHANGED <<leaderboardData, leaderboardList, finalScore, featureBoxes,
                progressDisplay, modals, currentAnalysis, alerts, cycles, now,
                lastMutation, lastReturn>>

InitProbe(calls) ==
    /\ InitDashboard
    /\ lastMutation = [op |-> "off", before |-> <<>>]
    /\ lastReturn = [cause |-> "off", prev |-> <<>>, before |-> <<>>]
    /\ probe \in calls

\* the numbers -NegRange, ..., MaxRaw in steps of 1 / Scale
GridValues == {Rat(k, Scale) : k \in (-NegRange * Scale)..(MaxRaw * Scale)}
\* what the other argument of getMetricColor is while one runs over the grid
SideValues == {Num(-1), Num(15), Num(100)}

\* the metric types getMetricColor is called with: its five, an unknown one, and
\* the undefined dataset.metricType of a bar initializeProgressBars did not reach
ProbeTypes == MetricTypes \cup {"volume", "undefined"}

ClassifierCalls ==
    [fn : {"getMetricColor"}, metricType : ProbeTypes, value : GridValues,
     percentage : SideValues, result : {<<>>}]
    \cup
    [fn : {"getMetricColor"}, metricType : ProbeTypes, value : SideValues,
     percentage : GridValues, result : {<<>>}]

CallGetMetricColor ==
    /\ probe.fn = "getMetricColor"
    /\ probe.result = <<>>
    /\ probe' = [probe EXCEPT
                   !.result = <<getMetricColor(probe.metricType, probe.value,
                                               probe.percentage)>>]
    /\ ProbeUnchanged

SpecClassifier == InitProbe(ClassifierCalls) /\ [][CallGetMetricColor]_vars

\* the two normalizers, each over its own keys
NormalizerCalls ==
    [fn : {"updateMetrics"},
     key : {"pauseRatio", "pauseCount", "meanF0", "meanEnergy", "maxEnergy"},
     raw : GridValues, result : {<<>>}]
    \cup
    [fn : {"updateMetricBox"},
     key : {"pause_ratio", "pause_count", "mean_f0", "mean_energy", "max_energy"},
     raw : GridValues, result : {<<>>}]

CallUpdateMetrics ==
    /\ probe.fn = "updateMetrics"
    /\ probe.result = <<>>
    /\ probe' = [probe EXCEPT !.result = <<updateMetricsPercentage(probe.key, probe.raw)>>]
    /\ ProbeUnchanged

CallUpdateMetricBox ==
    /\ probe.fn = "updateMetricBox"
    /\ probe.result = <<>>
    /\ probe' = [probe EXCEPT !.result = <<updateMetricBoxPercentage(probe.key, probe.raw)>>]
    /\ ProbeUnchanged

NextNormalizer == CallUpdateMetrics \/ CallUpdateMetricBox

SpecNormalizer == InitProbe(NormalizerCalls) /\ [][NextNormalizer]_vars

\* the two generators of the synthesizer
FiveFiles == <<WavFile, Mp3File, WavFile, Mp3File, WavFile>>

SynthesizerCalls ==
    { [fn |-> "generateFullSessionResults", files |-> FiveFiles, result |-> <<>>],
      [fn |-> "generateSingleFileResults", files |-> <<WavFile>>, result |-> <<>>] }

CallGenerateFullSessionResults ==
    /\ probe.fn = "generateFullSessionResults"
    /\ probe.result = <<>>
    /\ \E rnd \in Draws(Len(FullSessionReasons)) :
            probe' = [probe EXCEPT
                        !.result = <<generateFullSessionResults(probe.files, rnd)>>]
    /\ ProbeUnchanged

CallGenerateSingleFileResults ==
    /\ probe.fn = "generateSingleFileResults"
    /\ probe.result = <<>>
    /\ \E rnd \in Draws(Len(SingleFileReasons)) :
            probe' = [probe EXCEPT
                        !.result = <<generateSingleFileResults(probe.files[1], rnd)>>]
    /\ ProbeUnchanged

NextSynthesizer == CallGenerateFullSessionResults \/ CallGenerateSingleFileResults

SpecSynthesizer == InitProbe(SynthesizerCalls) /\ [][NextSynthesizer]_vars

\* simulateAudioAnalysis over batches of 1..MaxFiles audio files, all named apart
FileName(k) == IntStr(k) \o <<".", "w", "a", "v">>

Batch(n) == [k \in 1..n |-> FileName(k)]

SimulateCalls ==
    [fn : {"simulateAudioAnalysis"}, files : {Batch(n) : n \in 1..MaxFiles},
     argument : {<<>>}, result : {<<>>}]

CallSimulateAudioAnalysis ==
    /\ probe.fn = "simulateAudioAnalysis"
    /\ probe.result = <<>>
    /\ \E rnd \in DrawsFor(probe.files) :
            probe' = [probe EXCEPT
                        !.argument = <<GeneratorCall(probe.files).argument>>,
                        !.result = <<simulateAudioAnalysis(probe.files, rnd)>>]
    /\ ProbeUnchanged

SpecSimulate == InitProbe(SimulateCalls) /\ [][CallSimulateAudioAnalysis]_vars

----------------------------------------------------------------------------
(* Properties *)

\* C1: in handleFileUpload, when GET /health rejects or answers non-ok, the
\* result comes from simulateAudioAnalysis and sendFilesToBackend is not called.
C1_FallbackWhenUnavailable ==
    \A i \in DOMAIN cycles :
        cycles[i].health # "ok" => cycles[i].simulated /\ ~cycles[i].sent

\* C2: an addNewPlayer immediately followed by removeLastPlayer restores the
\* leaderboard that was displayed before the insert.
C2_RemoveRestores ==
    (lastMutation.op = "add-remove" /\ lastMutation.before # <<>>)
        => leaderboardList = lastMutation.before[1]

\* C3: the displayed leaderboard is sorted by score, highest first, and the rank
\* shown for the entry at index i is i, after addNewPlayer, removeLastPlayer and
\* addPlayerToLeaderboard alike.
C3_SortedAndRanked ==
    \A i \in 1..Len(leaderboardList) :
        /\ leaderboardList[i].rank = IntStr(i) \o <<".">>
        /\ ~parseInt(leaderboardList[i].score).nan
        /\ i < Len(leaderboardList) =>
              parseInt(leaderboardList[i].score).val
                  >= parseInt(leaderboardList[i + 1].score).val

\* a list of five entries from the buttons, and above them one added by an upload
C3_Witness ==
    /\ Len(leaderboardData) = 5
    /\ Len(leaderboardList) = 6
    /\ leaderboardList[1].name = PlayerName(1)
    /\ leaderboardList[1].score = <<"9", "6">>

\* the documented threshold table: per metric type, the number classified, the
\* buckets in order (upper bound, whether the bound is strict, tier), and the
\* tier above the last bound
ThresholdTable ==
    [t \in MetricTypes |->
        CASE t = "pause-ratio" ->
                [on |-> "percentage",
                 buckets |-> << <<10, FALSE, "excellent">>, <<20, FALSE, "good">>,
                                <<30, FALSE, "fair">>, <<40, FALSE, "poor">> >>,
                 rest |-> "bad"]
          [] t = "pause-count" ->
                [on |-> "value",
                 buckets |-> << <<5, FALSE, "excellent">>, <<15, FALSE, "good">>,
                                <<25, FALSE, "fair">>, <<35, FALSE, "poor">> >>,
                 rest |-> "bad"]
          [] t = "mean-f0" ->
                [on |-> "value",
                 buckets |-> << <<80, TRUE, "low">>, <<120, FALSE, "normal-low">>,
                                <<180, FALSE, "normal-mid">>, <<250, FALSE, "normal-high">> >>,
                 rest |-> "high"]
          [] t = "mean-energy" ->
                [on |-> "value",
                 buckets |-> << <<10, TRUE, "very-low">>, <<30, TRUE, "low">>,
                                <<70, FALSE, "optimal">>, <<85, FALSE, "high">> >>,
                 rest |-> "very-high"]
          [] t = "max-energy" ->
                [on |-> "value",
                 buckets |-> << <<15, TRUE, "very-low">>, <<35, TRUE, "low">>,
                                <<75, FALSE, "normal">>, <<90, FALSE, "high">> >>,
                 rest |-> "very-high"]]

\* the tier the table assigns: that of the first bucket the number falls under
TableTier(t, value, percentage) ==
    LET row == ThresholdTable[t]
        x == IF row.on = "percentage" THEN percentage ELSE value
        under == {k \in 1..Len(row.buckets) :
                    IF row.buckets[k][2] THEN x.n < row.buckets[k][1] * x.d
                    ELSE x.n <= row.buckets[k][1] * x.d}
    IN  IF under = {} THEN row.rest
        ELSE row.buckets[CHOOSE k \in under : \A j \in under : k <= j][3]

\* the tier keys of a metric type
TierKeys(t) ==
    {t \o "-" \o ThresholdTable[t].buckets[k][3] : k \in 1..Len(ThresholdTable[t].buckets)}
    \cup {t \o "-" \o ThresholdTable[t].rest}

\* C4: for each of the five metric types, getMetricColor returns the tier the
\* threshold table assigns to the value (to the percentage, for pause-ratio).
C4_MatchesThresholdTable ==
    (probe.fn = "getMetricColor" /\ probe.result # <<>> /\ probe.metricType \in MetricTypes)
        => probe.result[1] = probe.metricType \o "-" \o
                             TableTier(probe.metricType, probe.value, probe.percentage)

\* mean-f0 of exactly 80 has been classified, as normal-low
C4_Witness ==
    /\ probe.fn = "getMetricColor"
    /\ probe.metricType = "mean-f0"
    /\ probe.value = Num(80)
    /\ probe.result = <<"mean-f0-normal-low">>

\* C5: getMetricColor returns one of the five tier keys of a recognized type,
\* whatever the numbers, and the fixed default for any other type.
C5_TotalWithDefault ==
    (probe.fn = "getMetricColor" /\ probe.result # <<>>)
        => IF probe.metricType \in MetricTypes
           THEN probe.result[1] \in TierKeys(probe.metricType)
           ELSE probe.result[1] = "pause-ratio-good"

\* a call with no metric type has returned
C5_Witness ==
    /\ probe.fn = "getMetricColor"
    /\ probe.metricType = "undefined"
    /\ Lt(probe.value, Num(0))
    /\ probe.result # <<>>

\* C6: the percentage either normalizer computes is within [0, 100].
C6_PercentageInRange ==
    (probe.fn \in {"updateMetrics", "updateMetricBox"} /\ probe.result # <<>>)
        => Le(Num(0), probe.result[1]) /\ Le(probe.result[1], Num(100))

\* C7: a full-session result has bluff_score in [20, 80] and confidence in
\* [0.70, 0.95].
C7_ScoreAndConfidenceRange ==
    (probe.fn = "generateFullSessionResults" /\ probe.result # <<>>)
        => /\ Le(Num(20), probe.result[1].bluff_score)
           /\ Le(probe.result[1].bluff_score, Num(80))
           /\ Le(Rat(70, 100), probe.result[1].confidence)
           /\ Le(probe.result[1].confidence, Rat(95, 100))

\* a full-session result whose score and confidence were rounded up to the top
C7_Witness ==
    /\ probe.fn = "generateFullSessionResults"
    /\ probe.result # <<>>
    /\ probe.result[1].bluff_score = Num(80)
    /\ probe.result[1].confidence = Rat(95, 100)

IsInteger(x) == x.d = 1
Within(x, low, high) == Le(low, x) /\ Le(x, high)

\* C8: the metrics of a full-session result are within the stated ranges.
C8_MetricRanges ==
    (probe.fn = "generateFullSessionResults" /\ probe.result # <<>>)
        => LET m == probe.result[1].metrics
           IN  /\ Within(m.pause_ratio, Rat(5, 10), Rat(35, 10))
               /\ IsInteger(m.pause_count) /\ Within(m.pause_count, Num(3), Num(23))
               /\ IsInteger(m.mean_f0) /\ Within(m.mean_f0, Num(120), Num(200))
               /\ IsInteger(m.mean_energy) /\ Within(m.mean_energy, Num(30), Num(80))
               /\ IsInteger(m.max_energy) /\ Within(m.max_energy, Num(50), Num(90))

NoRepeats(seq) == \A i, j \in 1..Len(seq) : i # j => seq[i] # seq[j]
Elements(seq) == {seq[i] : i \in 1..Len(seq)}

\* C9: the reasons of a full-session result are 2 or 3 distinct items of the
\* pool of 4.
C9_FullSessionReasons ==
    (probe.fn = "generateFullSessionResults" /\ probe.result # <<>>)
        => /\ Len(probe.result[1].reasons) \in {2, 3}
           /\ NoRepeats(probe.result[1].reasons)
           /\ Elements(probe.result[1].reasons) \subseteq Elements(FullSessionReasons)

\* a full-session result with 3 reasons, and one with 2
C9_Witness ==
    /\ probe.fn = "generateFullSessionResults"
    /\ probe.result # <<>>
    /\ Len(probe.result[1].reasons) = 3

C9_WitnessOfTwo ==
    /\ probe.fn = "generateFullSessionResults"
    /\ probe.result # <<>>
    /\ Len(probe.result[1].reasons) = 2

\* C10, as claimed: under either policy the reasons are 2 to 4 distinct entries.
C10_TwoToFourReasons ==
    probe.result # <<>>
        => /\ Len(probe.result[1].reasons) \in 2..4
           /\ NoRepeats(probe.result[1].reasons)

\* C10, amended: under either policy the reasons are 1 to 4 distinct entries.
C10_OneToFourReasons ==
    probe.result # <<>>
        => /\ Len(probe.result[1].reasons) \in 1..4
           /\ NoRepeats(probe.result[1].reasons)

\* a single-file result with one reason
C10_Witness ==
    /\ probe.fn = "generateSingleFileResults"
    /\ probe.result # <<>>
    /\ Len(probe.result[1].reasons) = 1

\* C11: simulateAudioAnalysis chooses by the number of files alone: 5 files give
\* a full_session_baseline result with files_analyzed = 5; any other batch of
\* n >= 1 files gives a single_file result generated from the last file of the
\* batch, with files_analyzed an integer >= 1.
C11_PolicyByFileCount ==
    (probe.fn = "simulateAudioAnalysis" /\ probe.result # <<>>)
        => LET n == Len(probe.files)
               results == probe.result[1]
           IN  IF n = 5
               THEN /\ results.analysis_type = "full_session_baseline"
                    /\ results.files_analyzed = 5
               ELSE /\ results.analysis_type = "single_file"
                    /\ probe.argument[1] = probe.files[n]
                    /\ results.files_analyzed \in Nat
                    /\ results.files_analyzed >= 1

\* a batch of three files has been analysed as a single file
C11_Witness ==
    /\ probe.fn = "simulateAudioAnalysis"
    /\ Len(probe.files) = 3
    /\ probe.result # <<>>
    /\ probe.result[1].analysis_type = "single_file"
    /\ probe.argument = <<FileName(3)>>

\* a batch of five files has been analysed as a full session
C11_WitnessOfFive ==
    /\ probe.fn = "simulateAudioAnalysis"
    /\ Len(probe.files) = 5
    /\ probe.result # <<>>
    /\ probe.result[1].files_analyzed = 5


\* C12: a handleFileUpload call that ends because the backend answered non-2xx,
\* because the body was not JSON, or with a success:false result leaves the
\* progress indicator hidden and changes nothing of the leaderboard, the final
\* score, the metric boxes and currentAnalysis: they are as they were just before
\* the call returned and, when no other call overlapped it, as they were before
\* the upload.
FailureCauses == {"nonok", "malformed", "success:false"}

C12_FailureLeavesDashboard ==
    lastReturn.cause \in FailureCauses
        => /\ progressDisplay = "none"
           /\ Gui = lastReturn.prev[1]
           /\ lastReturn.before # <<>> => Gui = lastReturn.before[1]

\* a success:false answer to the second upload, after the first one had updated
\* the dashboard
C12_Witness ==
    /\ lastReturn.cause = "success:false"
    /\ lastReturn.before # <<>>
    /\ currentAnalysis # <<>>
    /\ Len(leaderboardList) = Len(InitialLeaderboardData) + 1

\* a non-2xx answer, and a body that is not JSON
C12_WitnessOfNonOk ==
    /\ lastReturn.cause = "nonok"
    /\ lastReturn.before # <<>>

C12_WitnessOfMalformed ==
    /\ lastReturn.cause = "malformed"
    /\ lastReturn.before # <<>>

\* the feature boxes whose title names the metric of a CSS class: the title in
\* lower case, its space turned into a hyphen
BoxesTitled(cssClass) ==
    {i \in 1..Len(BoxTitles) :
        ReplaceFirst(ToLowerCase(BoxTitles[i]), " ", "-") = Chars(cssClass)}

\* C13: once updateGUIWithResults has processed a successful result, the box of
\* each of the five metrics shows the percentage the normalizer computes for the
\* metric's value and the tier key getMetricColor returns for it.
C13_BoxesShowResult ==
    currentAnalysis # <<>>
        => \A k \in 1..Len(MetricMapping) :
              LET m == MetricMapping[k]
                  value == currentAnalysis[1].metrics[m.metricKey]
                  percentage == updateMetricBoxPercentage(m.metricKey, value)
              IN  \A i \in BoxesTitled(m.cssClass) :
                      /\ featureBoxes[i].width = percentage
                      /\ featureBoxes[i].className =
                             <<"progress-bar", getMetricColor(m.cssClass, value, percentage)>>

\* C14: the progress indicator is shown exactly while a handleFileUpload call is
\* awaiting its analysis result: it is displayed as long as at least one call is
\* in flight, whatever other calls have returned, and hidden when none is.
C14_ShownWhilePending ==
    /\ cycles # <<>> => progressDisplay = "flex"
    /\ cycles = <<>> => progressDisplay # "flex"

\* C15: the displayed leaderboard and the array leaderboardData hold the same
\* entries (name and score), so an entry addPlayerToLeaderboard displayed stays
\* displayed across later addNewPlayer and removeLastPlayer calls.
C15_SameEntries ==
    {[name |-> leaderboardList[i].name, score |-> leaderboardList[i].score] :
        i \in 1..Len(leaderboardList)}
    = {[name |-> leaderboardData[i].name, score |-> IntStr(leaderboardData[i].score)] :
        i \in 1..Len(leaderboardData)}

====
